---- MODULE Spec2Model ----
(***************************************************************************)
(* Model of ps4-renamer.py: the metadata store filled by load_csv_data and *)
(* load_json_data, the filename parser and generator, and the dry-run and  *)
(* committed passes of process_directory as main() drives them.            *)
(*                                                                         *)
(* A Python str is a sequence of one-character strings, so that regular    *)
(* expressions, strip, replace and formatting are computed, not assumed.   *)
(* Characters are ASCII: \d is 0-9; \s and str.strip() take ten characters *)
(* for whitespace, int() six of them.                                      *)
(***************************************************************************)
EXTENDS Integers, Sequences, FiniteSets, TLC

\* ------------------------------------------------------------------ bounds
\* Most catalog files main() finds and loads (CSV files first, then JSON).
MaxLoads == 2
\* Most entries of the target directory.
MaxFiles == 2
\* Most characters of a version string given to format_version on its own.
MaxVersionLen == 4

\* ------------------------------------------------------------- characters
Digit == {"0", "1", "2", "3", "4", "5", "6", "7", "8", "9"}

UpperCase ==
    {"A", "B", "C", "D", "E", "F", "G", "H", "I", "J", "K", "L", "M",
     "N", "O", "P", "Q", "R", "S", "T", "U", "V", "W", "X", "Y", "Z"}

\* The control characters that no escape of a string denotes: vertical tab
\* (0x0b) and the separators of files, groups, records and units (0x1c-0x1f).
VT == ""
FS == ""
GS == ""
RS == ""
US == ""

\* What C's isspace takes for whitespace: int() of an ASCII string ignores
\* these, and only these, around the number.
AsciiSpace == {" ", "\t", "\n", "\r", "\f", VT}

\* What str.strip() and the regular expression \s take for whitespace
\* (str.isspace): the six above and the four separators.
Whitespace == AsciiSpace \cup {FS, GS, RS, US}

\* invalid_chars of sanitize_filename.
InvalidChars == {"<", ">", ":", "\"", "/", "\\", "|", "?", "*"}

\* Python's None where a str is expected. Every real string is a sequence of
\* one-character strings, so this value is none of them.
None == <<"None">>

\* s[i], or "" when i is outside s (a regular expression then fails to match).
At(s, i) == IF i \in 1..Len(s) THEN s[i] ELSE ""

\* The index after the longest run of characters of class starting at s[i]:
\* what a greedy class+ consumes. The run is empty when the result is i.
RECURSIVE RunEnd(_, _, _)
RunEnd(s, i, class) ==
    IF i <= Len(s) /\ s[i] \in class THEN RunEnd(s, i + 1, class) ELSE i

\* Whether the characters of lit stand in s from index i on.
LitAt(s, i, lit) ==
    /\ i >= 1
    /\ i + Len(lit) - 1 <= Len(s)
    /\ \A k \in 1..Len(lit) : s[i + k - 1] = lit[k]

\* F applied to the value of v, with v computed once: Python evaluates the
\* right-hand side of an assignment once, however often the variable is read.
Let(v, F(_)) == CHOOSE r \in {F(x) : x \in {v}} : TRUE

\* s from index i on with every non-overlapping occurrence of old removed,
\* found left to right.
RECURSIVE RemoveFrom(_, _, _)
RemoveFrom(s, i, old) ==
    IF i > Len(s) THEN <<>>
    ELSE IF LitAt(s, i, old) THEN RemoveFrom(s, i + Len(old), old)
    ELSE <<s[i]>> \o RemoveFrom(s, i + 1, old)

\* str.replace(old, '')
RemoveAll(s, old) == RemoveFrom(s, 1, old)

\* The index before the longest run of characters of class that ends at s[j].
RECURSIVE RunStart(_, _, _)
RunStart(s, j, class) ==
    IF j >= 1 /\ s[j] \in class THEN RunStart(s, j - 1, class) ELSE j

\* s without its leading and trailing characters of class.
StripOf(s, class) == SubSeq(s, RunEnd(s, 1, class), RunStart(s, Len(s), class))

\* str.strip(): the text between the leading and the trailing whitespace.
Strip(s) == StripOf(s, Whitespace)

PkgExt == <<".", "p", "k", "g">>

\* ----------------------------------------------------- regular expressions
\* A pattern is a sequence of tokens. In every pattern of the program no
\* character that may follow a repetition belongs to the repeated class, so
\* the greedy match of each repetition is the only match: nothing backtracks.
Tok(t, set, min, max, lit, sub) ==
    [t |-> t, set |-> set, min |-> min, max |-> max, lit |-> lit, sub |-> sub]

\* class{min,max}; max = 0 is for no upper limit, as in class+ .
Cls(set, min, max) == Tok("cls", set, min, max, <<>>, <<>>)
Lit(lit) == Tok("lit", {}, 0, 0, lit, <<>>)
\* ( and ) of a capturing group.
Open == Tok("open", {}, 0, 0, <<>>, <<>>)
Close == Tok("close", {}, 0, 0, <<>>, <<>>)
\* (?:sub)?
Opt(sub) == Tok("opt", {}, 0, 0, <<>>, sub)
\* $ : the end of the text, or the place before its final newline.
End == Tok("end", {}, 0, 0, <<>>, <<>>)

\* The state of a match: whether it still holds, the next index, the groups
\* closed so far, and where the open group began.
MatchState(pos) == [ok |-> TRUE, pos |-> pos, groups |-> <<>>, open |-> pos]

Fail(st) == [st EXCEPT !.ok = FALSE]

\* The number of capturing groups of a token sequence, those inside an
\* optional part included.
RECURSIVE GroupCount(_)
GroupCount(tokens) ==
    IF tokens = <<>> THEN 0
    ELSE (CASE tokens[1].t = "open" -> 1
            [] tokens[1].t = "opt" -> GroupCount(tokens[1].sub)
            [] OTHER -> 0) + GroupCount(Tail(tokens))

RECURSIVE MatchTokens(_, _, _, _)
\* The state after the token tok is matched against s at st.pos.
MatchToken(s, st, tok) ==
    CASE tok.t = "cls" ->
            LET run == RunEnd(s, st.pos, tok.set) - st.pos
                n == IF tok.max > 0 /\ run > tok.max THEN tok.max ELSE run
            IN  IF n < tok.min THEN Fail(st) ELSE [st EXCEPT !.pos = @ + n]
      [] tok.t = "lit" ->
            IF LitAt(s, st.pos, tok.lit) THEN [st EXCEPT !.pos = @ + Len(tok.lit)]
            ELSE Fail(st)
      [] tok.t = "open" -> [st EXCEPT !.open = st.pos]
      [] tok.t = "close" ->
            [st EXCEPT !.groups = Append(@, SubSeq(s, st.open, st.pos - 1))]
      [] tok.t = "end" ->
            IF st.pos = Len(s) + 1 \/ (st.pos = Len(s) /\ s[Len(s)] = "\n") THEN st
            ELSE Fail(st)
      [] tok.t = "opt" ->
            Let(MatchTokens(s, st, tok.sub, 1), LAMBDA inner :
                IF inner.ok THEN inner
                ELSE [st EXCEPT !.groups = @ \o [k \in 1..GroupCount(tok.sub) |-> None]])

\* The state after the tokens from the k-th on are matched, in order.
MatchTokens(s, st, tokens, k) ==
    IF ~st.ok \/ k > Len(tokens) THEN st
    ELSE Let(MatchToken(s, st, tokens[k]), LAMBDA next :
             MatchTokens(s, next, tokens, k + 1))

\* match.groups() of a pattern that did not match.
NoMatch == << <<"NoMatch">> >>

\* re.match(pattern, s): the groups, or NoMatch.
ReMatch(tokens, s) ==
    Let(MatchTokens(s, MatchState(1), tokens, 1), LAMBDA st :
        IF st.ok THEN st.groups ELSE NoMatch)

\* re.search(pattern, s): the groups of the leftmost match, or NoMatch.
ReSearch(tokens, s) ==
    LET starts == {i \in 1..(Len(s) + 1) : MatchTokens(s, MatchState(i), tokens, 1).ok}
    IN  IF starts = {} THEN NoMatch
        ELSE MatchTokens(s, MatchState(CHOOSE i \in starts : \A j \in starts : i <= j),
                         tokens, 1).groups

\* ---------------------------------------------------------- parse_filename
\* The result of a failed parse (parse_filename returns None).
NoParse == [none |-> TRUE]

\* ([A-Z]{2}\d+)-([A-Z]{4}\d+)_\d+-([A-Z0-9]+)-A(\d+)-V(\d+)
FullPattern ==
    << Open, Cls(UpperCase, 2, 2), Cls(Digit, 1, 0), Close, Lit(<<"-">>),
       Open, Cls(UpperCase, 4, 4), Cls(Digit, 1, 0), Close, Lit(<<"_">>),
       Cls(Digit, 1, 0), Lit(<<"-">>),
       Open, Cls(UpperCase \cup Digit, 1, 0), Close, Lit(<<"-", "A">>),
       Open, Cls(Digit, 1, 0), Close, Lit(<<"-", "V">>),
       Open, Cls(Digit, 1, 0), Close >>

\* The list `patterns`, in its order.
patterns ==
    << \* ...-V(\d+)(?:_(\d+))?
       Append(FullPattern, Opt(<<Lit(<<"_">>), Open, Cls(Digit, 1, 0), Close>>)),
       FullPattern,
       \* ([A-Z]{4}\d+)-([A-Z0-9]+)-V(\d+)
       << Open, Cls(UpperCase, 4, 4), Cls(Digit, 1, 0), Close, Lit(<<"-">>),
          Open, Cls(UpperCase \cup Digit, 1, 0), Close, Lit(<<"-", "V">>),
          Open, Cls(Digit, 1, 0), Close >> >>

\* The groups of each pattern of the list, in its order.
PatternGroups(base_name) == [k \in 1..Len(patterns) |-> ReMatch(patterns[k], base_name)]

\* The dictionary built from the groups of the pattern that matched.
ParsedFrom(groups) ==
    IF Len(groups) >= 5
    THEN [publisher |-> groups[1], cusa |-> groups[2], title_code |-> groups[3],
          app_version |-> groups[4], version |-> groups[5],
          part |-> IF Len(groups) > 5 /\ groups[6] \notin {None, <<>>}
                   THEN groups[6] ELSE None]
    ELSE [publisher |-> None, cusa |-> groups[1], title_code |-> groups[2],
          app_version |-> None, version |-> groups[3], part |-> None]

\* The groups of the first pattern of the list that matches, or NoMatch.
FirstMatch(all) ==
    LET hits == {k \in 1..Len(all) : all[k] # NoMatch}
    IN  IF hits = {} THEN NoMatch
        ELSE all[CHOOSE k \in hits : \A j \in hits : k <= j]

\* parse_filename: the first pattern that matches decides.
parse_filename(filename) ==
    Let(RemoveAll(filename, PkgExt), LAMBDA base_name :
        Let(PatternGroups(base_name), LAMBDA all :
            Let(FirstMatch(all), LAMBDA groups :
                IF groups = NoMatch THEN NoParse ELSE ParsedFrom(groups))))

\* ---------------------------------------------------------- format_version
\* A value that is no string and is true in a condition (a non-zero number, a
\* non-empty object or list of a JSON file), with the text str() gives of it:
\* re.match and re.search raise TypeError on it, an f-string formats its text.
NonStrOf(text) == <<"NonStr">> \o text

IsNonStr(value) == value # <<>> /\ value[1] = "NonStr"

\* The number 1.05 of a JSON file.
NonStr == NonStrOf(<<"1", ".", "0", "5">>)

\* str(value), as an f-string formats a value: the text of a string is itself.
Str(value) ==
    IF value = None THEN <<"N", "o", "n", "e">>
    ELSE IF IsNonStr(value) THEN Tail(value)
    ELSE value

\* In place of a result: the call raised an exception.
Raised == <<"Raised">>

\* ^\d{1,2}\.\d{2}$
DottedPattern == <<Cls(Digit, 1, 2), Lit(<<".">>), Cls(Digit, 2, 2), End>>

IsDottedVersion(v) == ReMatch(DottedPattern, v) # NoMatch

\* The digits of an int() literal with its underscores removed, or None when
\* the text is no run of digits separated by single underscores.
DigitsOf(t) ==
    IF /\ t # <<>>
       /\ t[1] \in Digit
       /\ t[Len(t)] \in Digit
       /\ \A i \in 1..Len(t) : t[i] \in Digit \cup {"_"}
       /\ \A i \in 1..(Len(t) - 1) : ~(t[i] = "_" /\ t[i + 1] = "_")
    THEN SelectSeq(t, LAMBDA ch : ch \in Digit)
    ELSE None

\* str(int(...)) of a run of digits: a mutant that keeps the leading zeros.
DropZerosKeep(t) == t

\* str(int(...)) of a run of digits: the leading zeros go, one digit stays.
RECURSIVE DropZeros(_)
DropZeros(t) ==
    IF Len(t) > 1 /\ t[1] = "0" THEN DropZeros(Tail(t)) ELSE t

\* sys.get_int_max_str_digits(): int() raises ValueError on a literal of more
\* digits, leading zeros counted, sign, whitespace and underscores not.
MaxStrDigits == 4300

\* str(int(t)), or None when int(t) raises ValueError: surrounding whitespace
\* (C's isspace) is ignored, one sign is allowed, leading zeros go, and -0 is 0.
IntStr(t) ==
    LET u == StripOf(t, AsciiSpace)
        signed == u # <<>> /\ u[1] \in {"+", "-"}
        digits == DigitsOf(IF signed THEN Tail(u) ELSE u)
        value == DropZeros(digits)
    IN  IF digits = None THEN None
        ELSE IF Len(digits) > MaxStrDigits THEN None
        ELSE IF signed /\ u[1] = "-" /\ value # <<"0">> THEN <<"-">> \o value
        ELSE value

\* str.zfill(2) of a string of one or two characters: a leading sign stays first.
ZFill2(v) ==
    IF Len(v) >= 2 THEN v
    ELSE IF v[1] \in {"+", "-"} THEN <<v[1], "0">>
    ELSE <<"0", v[1]>>

format_version(version_str) ==
    IF version_str \in {None, <<>>} THEN <<"1", ".", "0", "0">>
    ELSE IF IsNonStr(version_str) THEN Raised
    ELSE IF IsDottedVersion(version_str) THEN version_str
    ELSE IF Len(version_str) >= 3
    THEN LET major == IntStr(SubSeq(version_str, 1, Len(version_str) - 2))
             minor == SubSeq(version_str, Len(version_str) - 1, Len(version_str))
         IN  IF major = None THEN version_str
             ELSE major \o <<".">> \o minor
    ELSE <<"1", ".">> \o ZFill2(version_str)

\* ------------------------------------------------------- sanitize_filename
\* re.sub(r'\s+', ' ', s) from index i on: every run of whitespace becomes
\* one space.
RECURSIVE CollapseFrom(_, _)
CollapseFrom(s, i) ==
    IF i > Len(s) THEN <<>>
    ELSE IF s[i] \in Whitespace
    THEN <<" ">> \o CollapseFrom(s, RunEnd(s, i, Whitespace))
    ELSE <<s[i]>> \o CollapseFrom(s, i + 1)

CollapseSpaces(s) == CollapseFrom(s, 1)

sanitize_filename(filename) ==
    Let(SelectSeq(filename, LAMBDA ch : ch \notin InvalidChars), LAMBDA kept :
        Let(CollapseSpaces(kept), LAMBDA spaced : Strip(spaced)))

\* --------------------------------------------------- generate_new_filename
\* A store record, as the adapters write it.
Record(name, version, source) ==
    [name |-> name, version |-> version, source |-> source]

\* generate_new_filename: a mutant that formats the version embedded in the
\* filename, not the version of the store's record.
generate_new_filename_from_parsed_version(parsed_data, db) ==
    LET cusa == parsed_data.cusa
    IN  IF cusa \in {None, <<>>} THEN None
        ELSE IF cusa \notin DOMAIN db THEN None
        ELSE LET game_info == db[cusa]
                 part_suffix == IF parsed_data.part \in {None, <<>>} THEN <<>>
                                ELSE <<"_", "P", "a", "r", "t">> \o parsed_data.part
             IN  Let(format_version(parsed_data.version), LAMBDA formatted_version :
                     IF formatted_version = Raised THEN Raised
                     ELSE sanitize_filename(
                         Str(game_info.name) \o <<" ", "[", "U", "P", "D", "A", "T", "E", " ">>
                         \o formatted_version \o <<"]", "[">> \o cusa \o <<"]">>
                         \o part_suffix \o PkgExt))

\* The new name of a parsed file under the store db, or None, or Raised when
\* format_version raises.
generate_new_filename(parsed_data, db) ==
    LET cusa == parsed_data.cusa
    IN  IF cusa \in {None, <<>>} THEN None
        ELSE IF cusa \notin DOMAIN db THEN None
        ELSE LET game_info == db[cusa]
                 part_suffix == IF parsed_data.part \in {None, <<>>} THEN <<>>
                                ELSE <<"_", "P", "a", "r", "t">> \o parsed_data.part
             IN  Let(format_version(game_info.version), LAMBDA formatted_version :
                     IF formatted_version = Raised THEN Raised
                     ELSE sanitize_filename(
                         Str(game_info.name) \o <<" ", "[", "U", "P", "D", "A", "T", "E", " ">>
                         \o formatted_version \o <<"]", "[">> \o cusa \o <<"]">>
                         \o part_suffix \o PkgExt))

\* ============================================================= pd.read_csv
\* A CSV file is its header and its lines, each line a sequence of cell texts
\* as long as the header. pd.read_csv gives every column one type, inferred
\* from all its cells, and str() of a cell shows the value of that type, not
\* the text of the file. Cells here read as a missing value, as a decimal
\* number of at most 15 significant digits, or as text; none reads as a
\* boolean or as infinity.
DigitValue(ch) == CHOOSE d \in 0..9 : <<"0", "1", "2", "3", "4", "5", "6", "7", "8", "9">>[d + 1] = ch

\* The number a run of digits denotes.
RECURSIVE NatOf(_)
NatOf(s) ==
    IF s = <<>> THEN 0 ELSE 10 * NatOf(SubSeq(s, 1, Len(s) - 1)) + DigitValue(s[Len(s)])

\* The decimal text of a natural number.
RECURSIVE Decimal(_)
Decimal(n) ==
    LET last == <<<<"0", "1", "2", "3", "4", "5", "6", "7", "8", "9">>[(n % 10) + 1]>>
    IN  IF n < 10 THEN last ELSE Decimal(n \div 10) \o last

\* A cell that pandas read as missing: the float nan.
NaN == [dtype |-> "float64", nan |-> TRUE]

\* The cell texts pd.read_csv reads as missing (its default na_values).
NaValues ==
    { <<>>,
      <<"#", "N", "/", "A">>,
      <<"#", "N", "/", "A", " ", "N", "/", "A">>,
      <<"#", "N", "A">>,
      <<"-", "1", ".", "#", "I", "N", "D">>,
      <<"-", "1", ".", "#", "Q", "N", "A", "N">>,
      <<"-", "N", "a", "N">>,
      <<"-", "n", "a", "n">>,
      <<"1", ".", "#", "I", "N", "D">>,
      <<"1", ".", "#", "Q", "N", "A", "N">>,
      <<"<", "N", "A", ">">>,
      <<"N", "/", "A">>,
      <<"N", "A">>,
      <<"N", "U", "L", "L">>,
      <<"N", "a", "N">>,
      <<"N", "o", "n", "e">>,
      <<"n", "/", "a">>,
      <<"n", "a", "n">>,
      <<"n", "u", "l", "l">> }

\* The result of reading a text that denotes no number.
NoNumber == [number |-> FALSE]

\* The shape of a number for the parser of pd.read_csv: whitespace (C's
\* isspace), one sign, digits with at most one dot, an exponent with its own
\* sign and at least one digit, whitespace, and nothing more.
NumberPattern ==
    << Cls(AsciiSpace, 0, 0),
       Open, Cls({"+", "-"}, 0, 1), Close,
       Open, Cls(Digit, 0, 0), Close,
       Opt(<<Lit(<<".">>), Open, Cls(Digit, 0, 0), Close>>),
       Opt(<<Cls({"e", "E"}, 1, 1), Open, Cls({"+", "-"}, 0, 1), Close,
             Open, Cls(Digit, 1, 0), Close>>),
       Cls(AsciiSpace, 0, 0), End >>

\* The number a cell text denotes to the parser of pd.read_csv, or NoNumber:
\* a text of the shape above with at least one digit before the exponent.
\* The value is digits / 10^scale, negated when neg; integer tells whether
\* the text is an integer literal.
ParseNumber(t) ==
    Let(ReMatch(NumberPattern, t), LAMBDA groups :
        IF groups = NoMatch THEN NoNumber
        ELSE LET int_digits == groups[2]
                 has_dot == groups[3] # None
                 frac_digits == IF has_dot THEN groups[3] ELSE <<>>
                 has_exp == groups[5] # None
                 exponent == IF ~has_exp THEN 0
                             ELSE IF groups[4] = <<"-">> THEN 0 - NatOf(groups[5])
                             ELSE NatOf(groups[5])
             IN  IF int_digits \o frac_digits = <<>> THEN NoNumber
                 ELSE [number |-> TRUE, integer |-> ~has_dot /\ ~has_exp,
                       neg |-> groups[1] = <<"-">>, digits |-> int_digits \o frac_digits,
                       scale |-> Len(frac_digits) - exponent])

\* What each cell of a column reads as: NaN, a number, or NoNumber.
ReadCells(cells) ==
    [k \in 1..Len(cells) |->
        IF cells[k] \in NaValues THEN NaN ELSE ParseNumber(cells[k])]

\* The type pd.read_csv gives a column: int64 when every cell is an integer
\* literal and none is missing, float64 when every cell that is not missing
\* is a number, object (text) otherwise.
ColumnType(read) ==
    LET present == {k \in 1..Len(read) : read[k] # NaN}
    IN  IF /\ present = 1..Len(read)
           /\ present # {}
           /\ \A k \in present : read[k].number /\ read[k].integer
        THEN "int64"
        ELSE IF \A k \in present : read[k].number
        THEN "float64"
        ELSE "object"

\* The values of the cells of a column, each of the column's type.
Column(cells) ==
    Let(ReadCells(cells), LAMBDA read :
        Let(ColumnType(read), LAMBDA type :
            [k \in 1..Len(cells) |->
                IF read[k] = NaN THEN NaN
                ELSE IF type = "object" THEN [dtype |-> "object", text |-> cells[k]]
                ELSE [dtype |-> type, neg |-> read[k].neg, digits |-> read[k].digits,
                      scale |-> read[k].scale]]))

\* df = pd.read_csv(csv_file): the columns, and the rows as iterrows gives
\* them, each cell with the value of its column's type.
read_csv(file) ==
    Let([c \in 1..Len(file.header) |->
            Column([k \in 1..Len(file.lines) |-> file.lines[k][c]])], LAMBDA columns :
        [columns |-> {file.header[c] : c \in 1..Len(file.header)},
         rows |-> [k \in 1..Len(file.lines) |->
                      [name \in {file.header[c] : c \in 1..Len(file.header)} |->
                          columns[CHOOSE c \in 1..Len(file.header) : file.header[c] = name][k]]]])

\* n zeros.
Zeros(n) == [k \in 1..n |-> "0"]

\* str() of a float: the shortest decimal text that reads back as the same
\* float, with a digit on both sides of the point, in exponent notation when
\* the first significant digit is beyond the 4th decimal or the 16th
\* integer place.
FloatStr(cell) ==
    LET whole == DropZeros(cell.digits)
        sig == SubSeq(whole, 1, RunStart(whole, Len(whole), {"0"}))
        decpt == Len(whole) - cell.scale
        sign == IF cell.neg THEN <<"-">> ELSE <<>>
        exp_text == Decimal(IF decpt - 1 < 0 THEN 1 - decpt ELSE decpt - 1)
    IN  IF sig = <<>> THEN sign \o <<"0", ".", "0">>
        ELSE IF decpt < -3 \/ decpt > 16
        THEN sign \o <<sig[1]>>
                  \o (IF Len(sig) > 1 THEN <<".">> \o Tail(sig) ELSE <<>>)
                  \o <<"e", IF decpt - 1 < 0 THEN "-" ELSE "+">>
                  \o (IF Len(exp_text) < 2 THEN <<"0">> ELSE <<>>) \o exp_text
        ELSE IF decpt <= 0 THEN sign \o <<"0", ".">> \o Zeros(0 - decpt) \o sig
        ELSE IF decpt >= Len(sig) THEN sign \o sig \o Zeros(decpt - Len(sig)) \o <<".", "0">>
        ELSE sign \o SubSeq(sig, 1, decpt) \o <<".">> \o SubSeq(sig, decpt + 1, Len(sig))

\* str(cell) of a DataFrame cell.
StrOf(cell) ==
    IF cell = NaN THEN <<"n", "a", "n">>
    ELSE IF cell.dtype = "object" THEN cell.text
    ELSE IF cell.dtype = "int64"
    THEN LET value == DropZeros(cell.digits)
         IN  IF cell.neg /\ value # <<"0">> THEN <<"-">> \o value ELSE value
    ELSE FloatStr(cell)

\* =============================================================== ingestion
\* A key a JSON object does not have.
Absent == <<"Absent">>

\* Whether a JSON value is true in a condition. The empty string is not, nor
\* is None, which stands for null and for every other false value that is no
\* string (0, false, [], {}); a string with characters and NonStr are.
Truthy(value) == value \notin {None, <<>>}

\* dict.get(key, default) of a JSON value.
GetOr(value, default) == IF value = Absent THEN default ELSE value

DefaultVersion == <<"1", ".", "0", "0">>

\* (CUSA\d+)
CusaPattern == <<Open, Lit(<<"C", "U", "S", "A">>), Cls(Digit, 1, 0), Close>>

\* re.search(r'(CUSA\d+)', s): group(1) of the match, or None.
SearchCusa(s) ==
    Let(ReSearch(CusaPattern, s), LAMBDA groups :
        IF groups = NoMatch THEN None ELSE groups[1])

\* self.game_database[cusa] = {...}: a mutant that keeps the first record.
StoreRecordKeepFirst(db, cusa, rec) ==
    IF cusa \in DOMAIN db THEN db
    ELSE [k \in DOMAIN db \cup {cusa} |-> IF k = cusa THEN rec ELSE db[k]]

\* self.game_database[cusa] = {...}: the record of cusa is replaced whole.
StoreRecord(db, cusa, rec) ==
    [k \in DOMAIN db \cup {cusa} |-> IF k = cusa THEN rec ELSE db[k]]

\* The state of one load call: the store, loaded_count, whether an exception
\* was raised, and the records this call has written, in order.
LoadState(db) == [db |-> db, loaded_count |-> 0, raised |-> FALSE, stored |-> <<>>]

Stored(st, cusa, rec) ==
    [st EXCEPT !.db = StoreRecord(st.db, cusa, rec),
               !.loaded_count = @ + 1,
               !.stored = Append(@, [cusa |-> cusa, rec |-> rec])]

\* One iteration of the loop over df.iterrows().
CsvRow(st, csv_file, df, row) ==
    LET title_id == Strip(StrOf(row.Title_ID))
        title_name == Strip(StrOf(row.Title_Name))
        cusa == SearchCusa(title_id)
        version == IF "Version" \in df.columns
                   THEN Strip(StrOf(row.Version))
                   ELSE Strip(DefaultVersion)
    IN  IF cusa = None THEN st
        ELSE Stored(st, cusa,
                    Record(title_name, version, <<"C", "S", "V", ":">> \o csv_file))

RECURSIVE CsvRows(_, _, _, _)
CsvRows(st, csv_file, df, k) ==
    IF k > Len(df.rows) THEN st
    ELSE CsvRows(CsvRow(st, csv_file, df, df.rows[k]), csv_file, df, k + 1)

\* load_csv_data: the store after the call and the value returned.
load_csv_data(db, file) ==
    LET st == IF ~file.readable THEN [LoadState(db) EXCEPT !.raised = TRUE]
              ELSE Let(read_csv(file), LAMBDA df :
                       IF {"Title_ID", "Title_Name"} \subseteq df.columns
                       THEN CsvRows(LoadState(db), file.name, df, 1)
                       ELSE LoadState(db))
    IN  [db |-> st.db, raised |-> st.raised, stored |-> st.stored,
         return |-> IF st.raised THEN 0 ELSE st.loaded_count]

\* One iteration of the loop over data['results'].
JsonResult(st, json_file, result) ==
    IF ~result.is_dict THEN [st EXCEPT !.raised = TRUE]
    ELSE IF ~(result.status = <<"f", "o", "u", "n", "d">> /\ result.has_updates) THEN st
    ELSE LET title_id == GetOr(result.title_id, <<>>)
             title_name == GetOr(result.title_name, GetOr(result.sony_game_name, <<>>))
             cusa == SearchCusa(title_id)
             latest_version == GetOr(result.latest_version, DefaultVersion)
         IN  IF title_id = None \/ IsNonStr(title_id) THEN [st EXCEPT !.raised = TRUE]
             ELSE IF cusa = None \/ ~Truthy(title_name) THEN st
             ELSE Stored(st, cusa,
                         Record(title_name, latest_version,
                                <<"J", "S", "O", "N", ":">> \o json_file))

RECURSIVE JsonResults(_, _, _, _)
JsonResults(st, json_file, results, k) ==
    IF k > Len(results) \/ st.raised THEN st
    ELSE JsonResults(JsonResult(st, json_file, results[k]), json_file, results, k + 1)

\* load_json_data: the store after the call and the value returned.
load_json_data(db, file) ==
    LET st == IF ~file.readable THEN [LoadState(db) EXCEPT !.raised = TRUE]
              ELSE IF file.data.has_results
              THEN JsonResults(LoadState(db), file.name, file.data.results, 1)
              ELSE LoadState(db)
    IN  [db |-> st.db, raised |-> st.raised, stored |-> st.stored,
         return |-> IF st.raised THEN 0 ELSE st.loaded_count]

\* ================================================================== inputs
\* The catalog files main() may find in the current directory.
CsvFiles ==
    { [name |-> <<"a", ".", "c", "s", "v">>, readable |-> TRUE,
       header |-> <<"Title_ID", "Title_Name", "Version">>,
       lines |-> << << <<"C", "U", "S", "A", "1">>, <<"G">>, <<"0", "1", "0", "0">> >>,
                    << <<"P", "C", "A", "S", "3">>, <<"P">>, <<"1", ".", "0", "0">> >>,
                    << <<"C", "U", "S", "A", "2">>, <<>>, <<>> >> >>],
      [name |-> <<"b", ".", "c", "s", "v">>, readable |-> TRUE,
       header |-> <<"Title_ID", "Title_Name">>,
       lines |-> << << <<"U", "P", "1", "-", "C", "U", "S", "A", "1", "_", "0">>, <<"H", ":">> >>,
                    << <<"C", "U", "S", "A", "3">>, <<" ", " ">> >> >>],
      [name |-> <<"c", ".", "c", "s", "v">>, readable |-> FALSE,
       header |-> <<>>, lines |-> <<>>] }

JsonResultOf(status, has_updates, id, name, sony, version) ==
    [is_dict |-> TRUE, status |-> status, has_updates |-> has_updates, title_id |-> id,
     title_name |-> name, sony_game_name |-> sony, latest_version |-> version]

\* An element of results that is no JSON object.
NotADict ==
    [is_dict |-> FALSE, status |-> Absent, has_updates |-> FALSE, title_id |-> Absent,
     title_name |-> Absent, sony_game_name |-> Absent, latest_version |-> Absent]

Found == <<"f", "o", "u", "n", "d">>

JsonFiles ==
    { [name |-> <<"x", ".", "j", "s", "o", "n">>, readable |-> TRUE,
       data |-> [has_results |-> TRUE,
                 results |-> << JsonResultOf(Found, TRUE, <<"C", "U", "S", "A", "1">>, <<"G">>,
                                             Absent, <<"1", ".", "0", "0">>),
                                JsonResultOf(<<"n", "o">>, TRUE, <<"C", "U", "S", "A", "2">>,
                                             <<"S">>, Absent, Absent),
                                JsonResultOf(Found, TRUE, <<"C", "U", "S", "A", "2">>, <<>>,
                                             <<"S">>, Absent),
                                JsonResultOf(Found, TRUE, <<"C", "U", "S", "A", "3">>, None,
                                             <<"S">>, Absent),
                                JsonResultOf(Found, TRUE, <<"C", "U", "S", "A", "3">>, NonStr,
                                             Absent, Absent) >>]],
      [name |-> <<"y", ".", "j", "s", "o", "n">>, readable |-> TRUE,
       data |-> [has_results |-> TRUE,
                 results |-> << JsonResultOf(Found, TRUE, <<"C", "U", "S", "A", "1">>, Absent,
                                             <<"K">>, NonStr),
                                JsonResultOf(Found, TRUE, <<"C", "U", "S", "A", "2">>, <<" ">>,
                                             Absent, <<"2", "8", "3">>),
                                NotADict >>]],
      [name |-> <<"z", ".", "j", "s", "o", "n">>, readable |-> FALSE,
       data |-> [has_results |-> FALSE, results |-> <<>>]] }

\* The names the target directory may hold.
FileNames ==
    { <<"U", "P", "1", "-", "C", "U", "S", "A", "1", "_", "0", "-", "T", "-", "A", "1", "-", "V", "1",
        ".", "p", "k", "g">>,
      <<"U", "P", "1", "-", "C", "U", "S", "A", "1", "_", "0", "-", "T", "-", "A", "2", "-", "V", "2",
        ".", "p", "k", "g">>,
      <<"U", "P", "1", "-", "C", "U", "S", "A", "1", "_", "0", "-", "T", "-", "A", "1", "-", "V", "1",
        "_", "2", ".", "p", "k", "g">>,
      <<"P", "C", "A", "S", "3", "-", "T", "-", "V", "1", ".", "p", "k", "g">>,
      <<"G", " ", "[", "U", "P", "D", "A", "T", "E", " ", "1", ".", "0", "0", "]", "[",
        "C", "U", "S", "A", "1", "]", ".", "p", "k", "g">> }

\* Those of the names that may be symbolic links to nothing: one that
\* parse_filename accepts and the one the catalogs generate for it.
LinkNames ==
    { <<"U", "P", "1", "-", "C", "U", "S", "A", "1", "_", "0", "-", "T", "-", "A", "1", "-", "V", "1",
        ".", "p", "k", "g">>,
      <<"G", " ", "[", "U", "P", "D", "A", "T", "E", " ", "1", ".", "0", "0", "]", "[",
        "C", "U", "S", "A", "1", "]", ".", "p", "k", "g">> }

Range(seq) == {seq[k] : k \in 1..Len(seq)}

\* The listings of a directory of at most MaxFiles of these names, in every
\* order the filesystem may enumerate them.
Listings ==
    {l \in UNION {[1..n -> FileNames] : n \in 0..MaxFiles} :
        \A i, j \in 1..Len(l) : i # j => l[i] # l[j]}

\* =================================================================== state
VARIABLES
    game_database,  \* self.game_database: identifier -> record
    loaded,         \* the names of the catalog files main() has loaded
    last_load,      \* the last load call: the value returned, whether it raised
    ingested,       \* every record written to the store, in order
    listing,        \* the target directory as first enumerated
    dir,            \* the names in the target directory now
    links,          \* those of them that are symbolic links to nothing
    pc,             \* where main() is
    dry_run,        \* the dry_run argument of the running pass
    pkg_files,      \* the pass's snapshot of the directory
    idx,            \* the position of the pass in pkg_files
    stats,          \* the pass's statistics
    renamed_files,  \* self.renamed_files
    errors,         \* self.errors
    outcomes,       \* per pass, what happened to each file, in order
    reports,        \* the report save_report builds, by kind of pass
    saved,          \* the kinds of pass whose report file was written
    method_call     \* a method called on its own: its arguments and its result

vars == <<game_database, loaded, last_load, ingested, listing, dir, links, pc, dry_run,
          pkg_files, idx, stats, renamed_files, errors, outcomes, reports, saved,
          method_call>>

storeVars == <<game_database, loaded, last_load, ingested>>
passVars == <<dry_run, pkg_files, idx, stats, renamed_files, errors, outcomes>>

\* No method is called on its own while main() runs.
NoCall == [fn |-> "none"]

NoStats == [total_files |-> 0, processed |-> 0, renamed |-> 0, errors |-> 0, skipped |-> 0]

Init ==
    /\ game_database = <<>>
    /\ loaded = {}
    /\ last_load = [return |-> 0, raised |-> FALSE]
    /\ ingested = <<>>
    /\ listing \in Listings
    /\ dir = Range(listing)
    /\ links \in SUBSET (dir \cap LinkNames)
    /\ pc = "csv"
    /\ dry_run = TRUE
    /\ pkg_files = <<>>
    /\ idx = 1
    /\ stats = NoStats
    /\ renamed_files = <<>>
    /\ errors = <<>>
    /\ outcomes = [dryrun |-> <<>>, actual |-> <<>>]
    /\ reports = <<>>
    /\ saved = {}
    /\ method_call = NoCall

\* ------------------------------------------------------- main(): ingestion
AfterLoad(r, file) ==
    /\ game_database' = r.db
    /\ last_load' = [return |-> r.return, raised |-> r.raised]
    /\ ingested' = ingested \o r.stored
    /\ loaded' = loaded \cup {file.name}

\* for csv_file in csv_files: renamer.load_csv_data(str(csv_file))
LoadCsv ==
    /\ pc = "csv"
    /\ Cardinality(loaded) < MaxLoads
    /\ \E file \in CsvFiles :
        /\ file.name \notin loaded
        /\ AfterLoad(load_csv_data(game_database, file), file)
    /\ UNCHANGED <<listing, dir, links, pc, reports, saved, method_call>>
    /\ UNCHANGED passVars

\* for json_file in json_files: renamer.load_json_data(str(json_file))
LoadJson ==
    /\ pc \in {"csv", "json"}
    /\ Cardinality(loaded) < MaxLoads
    /\ \E file \in JsonFiles :
        /\ file.name \notin loaded
        /\ AfterLoad(load_json_data(game_database, file), file)
    /\ pc' = "json"
    /\ UNCHANGED <<listing, dir, links, reports, saved, method_call>>
    /\ UNCHANGED passVars

\* ------------------------------------------------------------- rename_file
\* The longest name of a directory entry, in bytes; a character is a byte here.
NameMax == 255

\* new_path.exists(): whether the name leads to a file, following a symbolic
\* link, so that a link to nothing does not exist. It raises the OSError of
\* the stat() behind it when that is no plain absence: on a name longer than
\* NameMax, and whenever the filesystem refuses the stat (a directory that can
\* be listed but not searched), which stat_ok tells.
TargetExists(d, l, new_filename, stat_ok) ==
    IF ~stat_ok \/ Len(new_filename) > NameMax THEN [raised |-> TRUE, value |-> FALSE]
    ELSE [raised |-> FALSE, value |-> new_filename \in d /\ new_filename \notin l]

\* old_path.rename(new_path) unless dry_run: a mutant that renames in a dry run too.
DirAfterRenameAlways(d, old, new_filename, dry) == (d \ {old}) \cup {new_filename}

\* old_path.rename(new_path) unless dry_run: the entry old goes and the entry
\* new_filename is what old was, in place of a link to nothing of that name.
DirAfterRename(d, old, new_filename, dry) ==
    IF dry THEN d ELSE (d \ {old}) \cup {new_filename}

LinksAfterRename(l, old, new_filename, dry) ==
    IF dry THEN l
    ELSE (l \ {old, new_filename}) \cup (IF old \in l THEN {new_filename} ELSE {})

\* The error text of a failed os.rename.
RenameError == <<"O", "S", "E", "r", "r", "o", "r">>

\* rename_file: the value returned, or Raised when new_path.exists() raises
\* (it is called outside the try), and the directory, renamed_files and errors
\* after it. stat_ok tells whether the filesystem answers the stat of the new
\* path, os_ok whether its rename succeeds.
rename_file(d, l, old, new_filename, dry, stat_ok, os_ok, renamed, errs) ==
    Let(TargetExists(d, l, new_filename, stat_ok), LAMBDA exists :
        IF exists.raised
        THEN [return |-> Raised, kind |-> "Raised", dir |-> d, links |-> l,
              renamed_files |-> renamed, errors |-> errs]
        ELSE IF exists.value
        THEN [return |-> FALSE, kind |-> "SkippedCollision", dir |-> d, links |-> l,
              renamed_files |-> renamed, errors |-> errs]
        ELSE IF ~dry /\ ~os_ok
        THEN [return |-> FALSE, kind |-> "Failed", dir |-> d, links |-> l,
              renamed_files |-> renamed,
              errors |-> Append(errs, [file |-> old, error |-> RenameError])]
        ELSE [return |-> TRUE, kind |-> "Renamed",
              dir |-> DirAfterRename(d, old, new_filename, dry),
              links |-> LinksAfterRename(l, old, new_filename, dry),
              renamed_files |-> Append(renamed, [original |-> old, new |-> new_filename]),
              errors |-> errs])

\* ------------------------------------------------------- process_directory
\* target_directory.glob("*.pkg") over a listing of the directory.
EndsWithPkg(name) == LitAt(name, Len(name) - Len(PkgExt) + 1, PkgExt)

Glob(l) == SelectSeq(l, EndsWithPkg)

PassKey(dry) == IF dry THEN "dryrun" ELSE "actual"

\* The entry of process_directory: the snapshot and the zeroed statistics.
StartPass(dry) ==
    /\ dry_run' = dry
    /\ pkg_files' = Glob(listing)
    /\ idx' = 1
    /\ stats' = [NoStats EXCEPT !.total_files = Len(Glob(listing))]
    /\ outcomes' = [outcomes EXCEPT ![PassKey(dry)] = <<>>]

\* The for loop over pkg_files: a mutant that leaves the loop at the first
\* file that is not renamed.
LoopNextBreak(i, n, renamed) == IF renamed THEN i + 1 ELSE n + 1

\* The for loop over pkg_files: the next position, whatever the file's outcome.
LoopNext(i, n, renamed) == i + 1

Outcome(file, kind, target) == [file |-> file, kind |-> kind, target |-> target]

\* dry_run_stats = renamer.process_directory(dry_run=True), its entry.
BeginDryRun ==
    /\ pc \in {"csv", "json"}
    /\ loaded # {}
    /\ pc' = "pass"
    /\ StartPass(TRUE)
    /\ UNCHANGED <<listing, dir, links, renamed_files, errors, reports, saved, method_call>>
    /\ UNCHANGED storeVars

\* What one iteration of the loop of process_directory does once the name is
\* parsed and the new name generated, or the generation has raised and the
\* except clause of the loop caught it: the outcome, and the directory,
\* statistics, renamed_files and errors after it. The except clause catches
\* what rename_file raises too, before processed is counted. stat_ok tells
\* whether the filesystem answers the stat of the new path, os_ok whether its
\* rename succeeds.
ProcessOne(pkg_file, parsed_data, new_filename, d, l, dry, stat_ok, os_ok, st, renamed, errs) ==
    IF parsed_data = NoParse
    THEN [outcome |-> Outcome(pkg_file, "SkippedNoParse", None), dir |-> d, links |-> l,
          stats |-> [st EXCEPT !.errors = @ + 1], return |-> FALSE,
          renamed_files |-> renamed, errors |-> errs]
    ELSE IF new_filename = Raised
    THEN [outcome |-> Outcome(pkg_file, "Raised", None), dir |-> d, links |-> l,
          stats |-> [st EXCEPT !.errors = @ + 1], return |-> FALSE,
          renamed_files |-> renamed, errors |-> errs]
    ELSE IF new_filename \in {None, <<>>}
    THEN [outcome |-> Outcome(pkg_file, "SkippedNoMetadata", None), dir |-> d, links |-> l,
          stats |-> [st EXCEPT !.errors = @ + 1], return |-> FALSE,
          renamed_files |-> renamed, errors |-> errs]
    ELSE Let(rename_file(d, l, pkg_file, new_filename, dry, stat_ok, os_ok, renamed, errs),
             LAMBDA r :
             IF r.kind = "Raised"
             THEN [outcome |-> Outcome(pkg_file, "Raised", None), dir |-> d, links |-> l,
                   stats |-> [st EXCEPT !.errors = @ + 1], return |-> FALSE,
                   renamed_files |-> renamed, errors |-> errs]
             ELSE [outcome |-> Outcome(pkg_file, r.kind, new_filename),
                   dir |-> r.dir, links |-> r.links,
                   stats |-> [st EXCEPT !.renamed = @ + (IF r.return THEN 1 ELSE 0),
                                        !.errors = @ + (IF r.return THEN 0 ELSE 1),
                                        !.processed = @ + 1],
                   return |-> r.return,
                   renamed_files |-> r.renamed_files, errors |-> r.errors])

\* The stores the load calls of main() can leave, over the catalog files above.
RECURSIVE StoresAfter(_)
StoresAfter(n) ==
    IF n = 0 THEN {<<>>}
    ELSE LET before == StoresAfter(n - 1)
         IN  before \cup {load_csv_data(db, f).db : db \in before, f \in CsvFiles}
                    \cup {load_json_data(db, f).db : db \in before, f \in JsonFiles}

\* parsed_data = self.parse_filename(pkg_file.name) and, when it is not None,
\* new_filename = self.generate_new_filename(parsed_data), for every name and
\* store of the model. Both are pure in the name and the store, so the table
\* is computed once and an iteration of the loop reads its entry.
NameCalls ==
    [pkg_file \in FileNames, db \in StoresAfter(MaxLoads) |->
        LET parsed_data == parse_filename(pkg_file)
        IN  [parsed_data |-> parsed_data,
             new_filename |-> IF parsed_data = NoParse THEN None
                              ELSE generate_new_filename(parsed_data, db)]]

\* One iteration of the loop of process_directory. The filesystem may refuse
\* the stat of the new path and may fail the rename; the choices show only
\* where the stat and the rename are attempted.
ProcessFile ==
    /\ pc = "pass"
    /\ idx <= Len(pkg_files)
    /\ \E call \in {NameCalls[pkg_files[idx], game_database]} :
       \E step \in {ProcessOne(pkg_files[idx], call.parsed_data, call.new_filename, dir,
                               links, dry_run, stat_ok, os_ok, stats, renamed_files,
                               errors) :
                    stat_ok \in BOOLEAN, os_ok \in BOOLEAN} :
        /\ dir' = step.dir
        /\ links' = step.links
        /\ renamed_files' = step.renamed_files
        /\ errors' = step.errors
        /\ stats' = step.stats
        /\ outcomes' = [outcomes EXCEPT ![PassKey(dry_run)] = Append(@, step.outcome)]
        /\ idx' = LoopNext(idx, Len(pkg_files), step.return)
    /\ UNCHANGED <<listing, pc, dry_run, pkg_files, reports, saved, method_call>>
    /\ UNCHANGED storeVars

\* save_report: the report built for the pass that has just returned.
Report(st, dry) ==
    [statistics |-> st, dry_run |-> dry, database_size |-> Cardinality(DOMAIN game_database),
     renamed_files |-> renamed_files, errors |-> errors]

\* process_directory returns and main() calls save_report, which builds the
\* report and writes it to its file; when the write fails save_report logs the
\* error and returns all the same. After a dry run that would rename nothing,
\* and after the committed pass, main() is done.
FinishPass ==
    /\ pc = "pass"
    /\ idx > Len(pkg_files)
    /\ reports' = (PassKey(dry_run) :> Report(stats, dry_run)) @@ reports
    /\ \E write_ok \in BOOLEAN :
           saved' = IF write_ok THEN saved \cup {PassKey(dry_run)} ELSE saved
    /\ pc' = IF dry_run /\ stats.renamed > 0 THEN "confirm" ELSE "done"
    /\ UNCHANGED <<listing, dir, links, method_call>>
    /\ UNCHANGED passVars
    /\ UNCHANGED storeVars

\* The user confirms: main() empties renamed_files and errors and enters
\* process_directory(dry_run=False). The backup copies the directory elsewhere
\* and leaves it as it is.
Confirm ==
    /\ pc = "confirm"
    /\ pc' = "pass"
    /\ renamed_files' = <<>>
    /\ errors' = <<>>
    /\ StartPass(FALSE)
    /\ UNCHANGED <<listing, dir, links, reports, saved, method_call>>
    /\ UNCHANGED storeVars

\* The user declines, or gives up after a failed backup.
Decline ==
    /\ pc = "confirm"
    /\ pc' = "done"
    /\ UNCHANGED <<listing, dir, links, reports, saved, method_call>>
    /\ UNCHANGED passVars
    /\ UNCHANGED storeVars

Next ==
    \/ LoadCsv
    \/ LoadJson
    \/ BeginDryRun
    \/ ProcessFile
    \/ FinishPass
    \/ Confirm
    \/ Decline

Spec == Init /\ [][Next]_vars

\* The loop of a pass and the saving of its report run to completion: the
\* program is single-threaded and nothing in a pass waits.
FairSpec == Spec /\ WF_vars(ProcessFile) /\ WF_vars(FinishPass)

\* ==================================================== methods on their own
\* The object as constructed, with main() not running: no catalog loaded, an
\* empty target directory.
Constructed ==
    /\ game_database = <<>>
    /\ loaded = {}
    /\ last_load = [return |-> 0, raised |-> FALSE]
    /\ ingested = <<>>
    /\ listing = <<>>
    /\ dir = {}
    /\ links = {}
    /\ pc = "call"
    /\ dry_run = TRUE
    /\ pkg_files = <<>>
    /\ idx = 1
    /\ stats = NoStats
    /\ renamed_files = <<>>
    /\ errors = <<>>
    /\ outcomes = [dryrun |-> <<>>, actual |-> <<>>]
    /\ reports = <<>>
    /\ saved = {}

mainVars == <<game_database, loaded, last_load, ingested, listing, dir, links, pc, dry_run,
              pkg_files, idx, stats, renamed_files, errors, outcomes, reports, saved>>

\* The strings of at most n characters of the set chars.
StringsOver(chars, n) == UNION {[1..k -> chars] : k \in 0..n}

\* The characters of the version strings tried: digits, the dot, a letter,
\* and what int() treats specially: underscore, sign, whitespace it ignores
\* (space, newline, carriage return) and whitespace it does not (FS).
VersionChars == {"0", "1", "2", ".", "a", "_", " ", "\n", "\r", FS, "-", "+"}

\* The version_str arguments tried: None, every short string, and the
\* versions of the docstrings and comments of format_version.
VersionInputs ==
    {None} \cup StringsOver(VersionChars, MaxVersionLen)
           \cup {<<"0", "2", "8", "3">>, <<"0", "1", "1", "0">>, <<"0", "1", ".", "1", "0">>,
                 <<"1", ".", "0", "0", "\n">>}

VersionInit ==
    /\ Constructed
    /\ method_call \in {[fn |-> "format_version", version_str |-> v, returned |-> FALSE,
                          result |-> None] : v \in VersionInputs}

\* self.format_version(version_str) runs and returns.
FormatVersionCall ==
    /\ method_call.fn = "format_version"
    /\ ~method_call.returned
    /\ method_call' = [method_call EXCEPT !.returned = TRUE,
                                          !.result = format_version(method_call.version_str)]
    /\ UNCHANGED mainVars

VersionNext == FormatVersionCall

VersionSpec == VersionInit /\ [][VersionNext]_vars

\* The parsed_data dictionaries tried: every combination of a few values of
\* each key, None where parse_filename gives None or the key may be missing.
ParsedInputs ==
    [publisher : {None, <<"U", "P", "1">>},
     cusa : {None, <<"C", "U", "S", "A", "1">>, <<"C", "U", "S", "A", "2">>,
             <<"C", "U", "S", "A", "3">>, <<"P", "C", "A", "S", "3">>},
     title_code : {<<"T">>, <<"K">>},
     app_version : {None, <<"1">>},
     version : {<<"1">>, <<"0", "2", "8", "3">>},
     part : {None, <<"2">>}]

\* Two dictionaries with the same identifier and part, and a store that the
\* load calls can leave.
GenerateInit ==
    /\ Constructed
    /\ method_call \in
           {[fn |-> "generate_new_filename", first |-> pq[1], second |-> pq[2], db |-> db,
             returned |-> FALSE, results |-> <<None, None>>] :
                pq \in {pq \in ParsedInputs \X ParsedInputs :
                            pq[1].cusa = pq[2].cusa /\ pq[1].part = pq[2].part},
                db \in StoresAfter(MaxLoads)}

\* self.generate_new_filename(parsed_data, ...) runs on each dictionary, over
\* the same store, and returns.
GenerateCall ==
    /\ method_call.fn = "generate_new_filename"
    /\ ~method_call.returned
    /\ method_call' =
           [method_call EXCEPT
               !.returned = TRUE,
               !.results = <<generate_new_filename(method_call.first, method_call.db),
                             generate_new_filename(method_call.second, method_call.db)>>]
    /\ UNCHANGED mainVars

GenerateNext == GenerateCall

GenerateSpec == GenerateInit /\ [][GenerateNext]_vars

\* ================================================================== claims
FailureKinds == {"SkippedNoParse", "SkippedNoMetadata", "SkippedCollision", "Failed"}

Files(outs) == [i \in 1..Len(outs) |-> outs[i].file]

CountKind(outs, kinds) == Cardinality({i \in 1..Len(outs) : outs[i].kind \in kinds})

\* Whether new_path.exists() raised for a file of the pass: the file's
\* processing raised though its new name was generated.
ExistsRaised(key) ==
    \E i \in 1..Len(outcomes[key]) :
        /\ outcomes[key][i].kind = "Raised"
        /\ generate_new_filename(parse_filename(outcomes[key][i].file), game_database)
               # Raised

\* C1: a dry-run pass followed by a committed pass over the same unchanged
\* directory and store, with a filesystem that refuses no stat in either pass
\* and fails no rename, gives every file the same outcome kind and the same
\* target name in both passes, and the files the dry run reports as renamed
\* are the files the committed pass renames.
C1_DryRunIsFaithfulPreview ==
    (/\ pc = "done"
     /\ "actual" \in DOMAIN reports
     /\ ~ExistsRaised("dryrun")
     /\ ~ExistsRaised("actual")
     /\ CountKind(outcomes.actual, {"Failed"}) = 0)
    => /\ outcomes.actual = outcomes.dryrun
       /\ Range(reports["actual"].renamed_files) = Range(reports["dryrun"].renamed_files)

\* The committed pass is about to process a file whose generated name is
\* already in the directory.
AtCollision ==
    /\ pc = "pass"
    /\ ~dry_run
    /\ idx <= Len(pkg_files)
    /\ LET parsed_data == parse_filename(pkg_files[idx])
       IN  /\ parsed_data # NoParse
           /\ generate_new_filename(parsed_data, game_database) \notin {None, <<>>, Raised}
           /\ generate_new_filename(parsed_data, game_database) \in dir

\* C2: in a committed pass, processing a file whose target name already exists
\* changes nothing in the directory and records no rename, the pass goes on to
\* the next file, and no step of any pass reduces the number of files.
C2_CollisionLeavesFilesAlone ==
    [][/\ AtCollision => /\ dir' = dir
                         /\ renamed_files' = renamed_files
                         /\ pc' = "pass"
                         /\ idx' = idx + 1
       /\ Cardinality(dir') >= Cardinality(dir)]_vars

\* C3: before, during and after a dry run, until a committed pass begins, the
\* directory holds exactly the names it held at the start, and every file the
\* dry run has visited whose target name leads to no file has its rename
\* (original name, new name) recorded in renamed_files, unless the check of
\* the target raised and the file's processing ended there, as it would in a
\* committed pass; the report of the dry run carries renamed_files.
C3_DryRunLeavesDirectory ==
    dry_run
    => /\ dir = Range(listing)
       /\ \A k \in 1..(idx - 1) :
              LET parsed_data == parse_filename(pkg_files[k])
                  new_filename == generate_new_filename(parsed_data, game_database)
              IN  (/\ parsed_data # NoParse
                   /\ new_filename \notin {None, <<>>, Raised}
                   /\ (new_filename \notin dir \/ new_filename \in links))
                  => \/ [original |-> pkg_files[k], new |-> new_filename]
                            \in Range(renamed_files)
                     \/ outcomes.dryrun[k].kind = "Raised"
       /\ "dryrun" \in DOMAIN reports => reports["dryrun"].renamed_files = renamed_files

\* A dry run has ended with two intended renames recorded, each a file's
\* that the dry run gave the outcome Renamed.
C3_Witness ==
    /\ pc = "confirm"
    /\ dry_run
    /\ Len(renamed_files) >= 2
    /\ CountKind(outcomes.dryrun, {"Renamed"}) = Len(renamed_files)
    /\ dir = Range(listing)

\* C4: in the report of every pass, each file that was not renamed is named by
\* a record of errors or of renamed_files.
C4_EveryFailureHasARecord ==
    \A key \in DOMAIN reports :
        \A i \in 1..Len(outcomes[key]) :
            outcomes[key][i].kind \in FailureKinds
            => \/ \E e \in Range(reports[key].errors) : e.file = outcomes[key][i].file
               \/ \E r \in Range(reports[key].renamed_files) :
                      r.original = outcomes[key][i].file

\* C5: in the report of every pass, skipped counts the files that failed to
\* parse or had no catalog record, and errors counts none of them.
C5_SkipsCountedAsSkipped ==
    \A key \in DOMAIN reports :
        LET st == reports[key].statistics
            skips == CountKind(outcomes[key], {"SkippedNoParse", "SkippedNoMetadata"})
        IN  /\ st.skipped = skips
            /\ st.errors <= st.total_files - st.renamed - skips

IngestedIds == {ingested[i].cusa : i \in 1..Len(ingested)}

LastWrite(cusa) ==
    CHOOSE i \in 1..Len(ingested) :
        /\ ingested[i].cusa = cusa
        /\ \A j \in 1..Len(ingested) : ingested[j].cusa = cusa => j <= i

\* C6: after any sequence of load calls the store holds, for each identifier
\* ever written and for no other, exactly the last record written for it, so
\* its size is the number of distinct identifiers written and nothing is removed.
C6_LastWriteWins ==
    /\ DOMAIN game_database = IngestedIds
    /\ \A cusa \in DOMAIN game_database :
           game_database[cusa] = ingested[LastWrite(cusa)].rec
    /\ Cardinality(DOMAIN game_database) = Cardinality(IngestedIds)

\* A record has replaced a different record of the same identifier, written
\* by another source.
C6_Witness ==
    \E i, j \in 1..Len(ingested) :
        /\ i < j
        /\ ingested[i].cusa = ingested[j].cusa
        /\ ingested[i].rec.name # ingested[j].rec.name
        /\ ingested[i].rec.source # ingested[j].rec.source
        /\ game_database[ingested[j].cusa] = ingested[j].rec
        /\ Cardinality(DOMAIN game_database) < Len(ingested)

\* C7: a load call that fails leaves the store exactly as it was before the
\* call and returns 0.
C7_FailedSourceContributesNothing ==
    [][(loaded' # loaded /\ last_load'.raised)
       => (game_database' = game_database /\ last_load'.return = 0)]_vars

\* C8: a pass visits the entries of its snapshot in order, one per step
\* whatever the outcome of the file before (renamed, skipped, failed, or
\* ended by an exception), the snapshot never changes during
\* the pass, the pass ends having visited each entry of the directory as it
\* was at the start exactly once, and every pass ends.
C8_PassVisitsEachEntryOnce ==
    /\ [](pc = "pass" =>
            /\ idx \in 1..(Len(pkg_files) + 1)
            /\ pkg_files = Glob(listing)
            /\ Files(outcomes[PassKey(dry_run)]) = SubSeq(pkg_files, 1, idx - 1))
    /\ [](\A key \in DOMAIN reports : Files(outcomes[key]) = Glob(listing))
    /\ (pc = "pass") ~> (pc # "pass")

\* A committed pass has ended in which a file that was not renamed is followed
\* by a file that was, after a dry run in which a file for which
\* new_path.exists() raised is followed by a file recorded as renamed.
C8_Witness ==
    /\ "actual" \in DOMAIN reports
    /\ \E i \in 1..(Len(outcomes.actual) - 1) :
           /\ outcomes.actual[i].kind \in FailureKinds
           /\ outcomes.actual[i + 1].kind = "Renamed"
    /\ \E i \in 1..(Len(outcomes.dryrun) - 1) :
           /\ outcomes.dryrun[i].kind = "Raised"
           /\ generate_new_filename(parse_filename(outcomes.dryrun[i].file), game_database)
                  # Raised
           /\ outcomes.dryrun[i + 1].kind = "Renamed"

\* Whether the text raw holds the identifier id, not followed by more digits.
ContainsId(raw, id) ==
    \E i \in 1..Len(raw) : LitAt(raw, i, id) /\ At(raw, i + Len(id)) \notin Digit

\* The raw id fields of the rows of a CSV file that carry a display name.
CsvOffered(f) ==
    IF f.readable /\ {"Title_ID", "Title_Name"} \subseteq read_csv(f).columns
    THEN LET rows == read_csv(f).rows
         IN  {StrOf(rows[k].Title_ID) :
                  k \in {k \in 1..Len(rows) :
                             /\ rows[k].Title_Name # NaN
                             /\ Strip(StrOf(rows[k].Title_Name)) # <<>>}}
    ELSE {}

\* The raw id fields of the entries of a JSON file that are marked found,
\* carry updates and a display name, and come before any malformed entry.
JsonOffered(f) ==
    IF f.readable /\ f.data.has_results
    THEN LET rs == f.data.results
         IN  {rs[k].title_id :
                  k \in {k \in 1..Len(rs) :
                             /\ \A j \in 1..k : rs[j].is_dict /\ rs[j].title_id # None
                                                /\ ~IsNonStr(rs[j].title_id)
                             /\ rs[k].status = Found
                             /\ rs[k].has_updates
                             /\ rs[k].title_id # Absent
                             /\ GetOr(rs[k].title_name,
                                      GetOr(rs[k].sony_game_name, <<>>)) # None
                             /\ Strip(GetOr(rs[k].title_name,
                                            GetOr(rs[k].sony_game_name, <<>>))) # <<>>}}
    ELSE {}

\* The raw id fields, with a display name, that the load calls made so far read.
OfferedIds ==
    UNION ({CsvOffered(f) : f \in {c \in CsvFiles : c.name \in loaded}}
           \cup {JsonOffered(f) : f \in {j \in JsonFiles : j.name \in loaded}})

\* C9: for every file of the directory that parse_filename accepts, if a load
\* call has read a row or entry with a display name whose id field holds the
\* parsed identifier, the store has a record under that identifier and a new
\* name is generated for the file.
C9_CatalogIdsMatchParsedIds ==
    \A f \in Range(listing) :
        LET parsed_data == parse_filename(f)
        IN  (/\ parsed_data # NoParse
             /\ \E raw \in OfferedIds : ContainsId(raw, parsed_data.cusa))
            => /\ parsed_data.cusa \in DOMAIN game_database
               /\ generate_new_filename(parsed_data, game_database) # None

\* C10: every record of the store has a display name that is neither empty
\* nor blank.
C10_DisplayNamesNonEmpty ==
    \A cusa \in DOMAIN game_database : Strip(game_database[cusa].name) # <<>>

\* The rule for versions, stated on its own.
DigitOnly(s) == s # <<>> /\ \A i \in 1..Len(s) : s[i] \in Digit

\* 1-2 digits, '.', exactly 2 digits.
DottedForm(s) ==
    /\ Len(s) \in {4, 5}
    /\ s[Len(s) - 2] = "."
    /\ \A i \in 1..Len(s) : i # Len(s) - 2 => s[i] \in Digit

\* Whether int(t) accepts t: whitespace (space, \t, \n, \r, \f, vertical
\* tab), one sign, digits with single underscores between them, whitespace,
\* and no more digits than MaxStrDigits.
IsIntLiteral(t) ==
    \E a \in 1..Len(t) : \E b \in a..Len(t) :
        /\ Cardinality({i \in a..b : t[i] \in Digit}) <= MaxStrDigits
        /\ \A i \in 1..(a - 1) : t[i] \in AsciiSpace \/ (i = a - 1 /\ t[i] \in {"+", "-"})
        /\ \A i \in (b + 1)..Len(t) : t[i] \in AsciiSpace
        /\ t[a] \in Digit /\ t[b] \in Digit
        /\ \A i \in a..b : t[i] \in Digit \cup {"_"}
        /\ \A i \in a..(b - 1) : ~(t[i] = "_" /\ t[i + 1] = "_")

\* C11: format_version returns a string on every input, and: None and the
\* empty string give "1.00"; a string of 1-2 digits, '.', 2 digits is returned
\* unchanged; a digit-only string s of 3 characters or more, s[:-2] of no more
\* digits than int() takes, gives the decimal text of int(s[:-2]), '.', s[-2:];
\* a shorter digit-only string gives "1."
\* and s padded with zeros to 2 characters; any other string whose major part
\* s[:-2] (of 3 characters or more) int() rejects is returned unchanged.
C11_FormatVersionRule ==
    (method_call.fn = "format_version" /\ method_call.returned)
    => LET s == method_call.version_str
           r == method_call.result
           n == Len(s)
       IN  /\ r \in Seq(STRING) /\ r \notin {None, Raised}
           /\ s \in {None, <<>>} => r = <<"1", ".", "0", "0">>
           /\ (s # None /\ DottedForm(s)) => r = s
           /\ (DigitOnly(s) /\ n >= 3 /\ n - 2 <= MaxStrDigits)
              => r = Decimal(NatOf(SubSeq(s, 1, n - 2))) \o <<".">> \o SubSeq(s, n - 1, n)
           /\ (DigitOnly(s) /\ n < 3)
              => r = <<"1", ".">> \o (IF n = 1 THEN <<"0">> ELSE <<>>) \o s
           /\ (/\ s \notin {None, <<>>}
               /\ ~DottedForm(s)
               /\ n >= 3
               /\ ~IsIntLiteral(SubSeq(s, 1, n - 2)))
              => r = s

\* "0283" was given and "2.83" returned.
C11_Witness ==
    /\ method_call.fn = "format_version"
    /\ method_call.returned
    /\ method_call.version_str = <<"0", "2", "8", "3">>
    /\ method_call.result = <<"2", ".", "8", "3">>

\* C12: generate_new_filename gives None when the store has no record under
\* the parsed identifier; otherwise it gives sanitize_filename of
\* "<name> [UPDATE <format_version(version)>][<identifier>]", "_Part<part>"
\* when there is a part, ".pkg", with name and version the record's, the name
\* as str() shows it (and it
\* raises when format_version raises on the record's version); and two
\* dictionaries with the same identifier and part, whatever their version,
\* app_version, title_code and publisher, get the same result.
C12_NameFromStoreAlone ==
    (method_call.fn = "generate_new_filename" /\ method_call.returned)
    => LET p == method_call.first
           db == method_call.db
           r == method_call.results
       IN  /\ p.cusa \notin DOMAIN db => r[1] = None
           /\ p.cusa \in DOMAIN db
              => LET normalized == format_version(db[p.cusa].version)
                 IN  IF normalized = Raised THEN r[1] = Raised
                     ELSE r[1] = sanitize_filename(
                              Str(db[p.cusa].name)
                              \o <<" ", "[", "U", "P", "D", "A", "T", "E", " ">>
                              \o normalized \o <<"]", "[">> \o p.cusa \o <<"]">>
                              \o (IF p.part = None THEN <<>>
                                  ELSE <<"_", "P", "a", "r", "t">> \o p.part)
                              \o <<".", "p", "k", "g">>)
           /\ r[2] = r[1]

\* Two dictionaries with different embedded versions, app versions, title
\* codes and publishers got the same name from a record of the store.
C12_Witness ==
    /\ method_call.fn = "generate_new_filename"
    /\ method_call.returned
    /\ method_call.first.version # method_call.second.version
    /\ method_call.first.app_version # method_call.second.app_version
    /\ method_call.first.title_code # method_call.second.title_code
    /\ method_call.first.publisher # method_call.second.publisher
    /\ method_call.first.part # None
    /\ method_call.first.cusa \in DOMAIN method_call.db
    /\ method_call.results[1] \notin {None, Raised}
    /\ method_call.results[2] = method_call.results[1]

\* C13: in the report of every pass, dry or committed, renamed + errors =
\* total_files; processed = total_files less the files that failed to parse
\* or had no catalog record; renamed <= processed; skipped = 0; and renamed is
\* the number of entries the pass appended to renamed_files.
C13_StatisticsIdentities ==
    \A key \in DOMAIN reports :
        LET st == reports[key].statistics
            unmatched == CountKind(outcomes[key], {"SkippedNoParse", "SkippedNoMetadata"})
        IN  /\ st.renamed + st.errors = st.total_files
            /\ st.processed = st.total_files - unmatched
            /\ st.renamed <= st.processed
            /\ st.skipped = 0
            /\ st.renamed = Len(reports[key].renamed_files)

====
